---- MODULE Spec2Model ----
(***************************************************************************)
(* A model of the decon-spf crate: the Spf record (src/src/spf/mod.rs),    *)
(* its parser, its builder and its mutators, and the Mechanism value       *)
(* (src/src/mechanism/mechanism.rs) with its two text constructors.        *)
(*                                                                         *)
(* Text is modelled as a sequence of one-character strings, so that        *)
(* contains / starts_with / ends_with / rsplit / split_whitespace are      *)
(* computed as the standard library computes them.                         *)
(* Option<T> is a sequence of length 0 (None) or 1 (Some(x)).              *)
(***************************************************************************)
EXTENDS Integers, Sequences, FiniteSets, TLC

VARIABLES
    pc,       \* lifecycle of the Record: "start", "built", "parsed", "failed", "aborted"
    spf,      \* the Record (struct Spf)
    perr,     \* the outcome of the from_str call that made the Record
    last,     \* the last operation applied to the Record, with its argument
    nops,     \* the number of operations applied since construction
    pline,    \* parse pipeline: the input line
    pstage,   \* parse pipeline: "input", "parsed", "rendered", "reparsed"
    pres,     \* parse pipeline: result of from_str(pline)
    ptext,    \* parse pipeline: to_string() of the parsed Record
    pres2,    \* parse pipeline: result of from_str(ptext)
    ms,       \* mechanism constructors: the input text
    mstage,   \* mechanism constructors: "input", "ip", "text"
    mres,     \* mechanism constructors: the result of the constructor
    bm,       \* the text mechanism handed to build_string
    bstage,   \* "idle", "input", "built"
    btext     \* the text build_string gave

vars == <<pc, spf, perr, last, nops, pline, pstage, pres, ptext, pres2, ms, mstage, mres,
          bm, bstage, btext>>

-----------------------------------------------------------------------------
(* Bounds of the model *)

\* the number of directive tokens after the version in a generated line
MaxTokens == 2

\* the number of operations applied to one Record
MaxOps == 3

-----------------------------------------------------------------------------
(* Text: the std::str operations the code calls *)

None == <<>>

Some(x) == <<x>>

IsSome(o) == Len(o) = 1

IsNone(o) == Len(o) = 0

Unwrap(o) == o[1]

StartsWith(s, p) == Len(s) >= Len(p) /\ SubSeq(s, 1, Len(p)) = p

EndsWith(s, p) == Len(s) >= Len(p) /\ SubSeq(s, Len(s) - Len(p) + 1, Len(s)) = p

Contains(s, p) ==
    \E i \in 1..(Len(s) - Len(p) + 1) : (p = <<>> \/ s[i] = p[1]) /\ SubSeq(s, i, i + Len(p) - 1) = p

\* str::strip_prefix: Some(rest) when s starts with p, None otherwise
StripPrefix(s, p) == IF StartsWith(s, p) THEN Some(SubSeq(s, Len(p) + 1, Len(s))) ELSE None

IsWhitespace(c) == c \in {" ", "\t"}

\* the first item of s.rsplit(c): the text after the rightmost c, all of s without c
RSplitFirst(s, c) ==
    LET hits == {i \in 1..Len(s) : s[i] = c}
    IN  IF hits = {} THEN s
        ELSE LET k == CHOOSE i \in hits : \A j \in hits : j <= i
             IN  SubSeq(s, k + 1, Len(s))

\* str::split_whitespace: the maximal runs of non-whitespace, in order
SplitWhitespace(s) ==
    LET starts == { i \in 1..Len(s) : ~IsWhitespace(s[i]) /\ (i = 1 \/ IsWhitespace(s[i - 1])) }
        ends   == { j \in 1..Len(s) : ~IsWhitespace(s[j]) /\ (j = Len(s) \/ IsWhitespace(s[j + 1])) }
        EndOf(i) == CHOOSE j \in ends : j >= i /\ \A k \in ends : k >= i => j <= k
        Nth(n)   == CHOOSE i \in starts : Cardinality({ j \in starts : j < i }) = n - 1
    IN  [n \in 1..Cardinality(starts) |-> SubSeq(s, Nth(n), EndOf(Nth(n)))]

RECURSIVE Concat(_)
Concat(ss) == IF ss = <<>> THEN <<>> ELSE Head(ss) \o Concat(Tail(ss))

-----------------------------------------------------------------------------
(* Literals *)

T_v1 == <<"v", "=", "s", "p", "f", "1">>
T_v2 == <<"s", "p", "f", "2", ".", "0">>
T_v2pra == T_v2 \o <<"/", "p", "r", "a">>
T_v2mfrom == T_v2 \o <<"/", "m", "f", "r", "o", "m">>
T_v2pra_mfrom == T_v2pra \o <<",", "m", "f", "r", "o", "m">>
T_v2mfrom_pra == T_v2mfrom \o <<",", "p", "r", "a">>
T_redirect == <<"r", "e", "d", "i", "r", "e", "c", "t", "=">>
T_include == <<"i", "n", "c", "l", "u", "d", "e", ":">>
T_exists == <<"e", "x", "i", "s", "t", "s", ":">>
T_ip4 == <<"i", "p", "4", ":">>
T_ip6 == <<"i", "p", "6", ":">>
T_ip4bare == <<"i", "p", "4">>
T_ip6bare == <<"i", "p", "6">>
T_all == <<"a", "l", "l">>
T_a == <<"a">>
T_mx == <<"m", "x">>
T_ptr == <<"p", "t", "r">>

-----------------------------------------------------------------------------
(* Qualifier and Kind *)

Qualifiers == {"Pass", "Fail", "SoftFail", "Neutral"}

Kinds == {"Redirect", "A", "MX", "Include", "IpV4", "IpV6", "Ptr", "Exists", "All"}

QualifierChars == {"+", "-", "~", "?"}

\* Qualifier::as_str: Pass has the empty encoding (mechanism.rs doc tests)
QualifierAsStr(q) ==
    CASE q = "Pass" -> <<>>
      [] q = "Fail" -> <<"-">>
      [] q = "SoftFail" -> <<"~">>
      [] q = "Neutral" -> <<"?">>

\* the qualifier a leading character denotes; any other character is Pass
CharToQualifier(c) ==
    CASE c = "-" -> "Fail"
      [] c = "~" -> "SoftFail"
      [] c = "?" -> "Neutral"
      [] OTHER -> "Pass"

\* Kind::as_str: the canonical prefix of each kind
KindAsStr(k) ==
    CASE k = "Redirect" -> T_redirect
      [] k = "A" -> T_a
      [] k = "MX" -> T_mx
      [] k = "Include" -> T_include
      [] k = "IpV4" -> T_ip4
      [] k = "IpV6" -> T_ip6
      [] k = "Ptr" -> T_ptr
      [] k = "Exists" -> T_exists
      [] k = "All" -> T_all

\* helpers::return_and_remove_qualifier: <<qualifier, text without it>>
ReturnAndRemoveQualifier(s) ==
    IF Len(s) > 0 /\ s[1] \in QualifierChars
    THEN <<CharToQualifier(s[1]), Tail(s)>>
    ELSE <<"Pass", s>>

-----------------------------------------------------------------------------
(* IP networks: what str::parse::<IpNetwork>() and IpNetwork's Display do *)

\* the address literals of the model, by family
Addrs4 == { <<"1", ".", "2", ".", "3", ".", "4">>, <<"1", "0", ".", "0", ".", "0", ".", "0">> }

Addrs6 == { <<":", ":", "1">>, <<"f", "e", "8", "0", ":", ":">> }

Digits == <<"0", "1", "2", "3", "4", "5", "6", "7", "8", "9">>

IsDigit(c) == \E d \in 1..10 : Digits[d] = c

DigitVal(c) == (CHOOSE d \in 1..10 : Digits[d] = c) - 1

RECURSIVE ParseDec(_, _)
ParseDec(s, acc) == IF s = <<>> THEN acc ELSE ParseDec(Tail(s), acc * 10 + DigitVal(Head(s)))

RECURSIVE ToDigits(_)
ToDigits(n) == IF n < 10 THEN <<Digits[n + 1]>> ELSE ToDigits(n \div 10) \o <<Digits[(n % 10) + 1]>>

\* the widest prefix of each family
MaxPrefix(fam) == IF fam = "V4" THEN 32 ELSE 128

\* IpNetwork::from_str: address, then an optional "/prefix" (the full width when absent)
ParseNet(s) ==
    LET slashes == {i \in 1..Len(s) : s[i] = "/"}
        cut  == IF slashes = {} THEN Len(s) + 1 ELSE CHOOSE i \in slashes : \A j \in slashes : i <= j
        addr == SubSeq(s, 1, cut - 1)
        pfx  == SubSeq(s, cut + 1, Len(s))
        fam  == IF addr \in Addrs4 THEN "V4" ELSE "V6"
        pfxOk == /\ Len(pfx) \in 1..3
                 /\ \A i \in 1..Len(pfx) : IsDigit(pfx[i])
                 /\ ParseDec(pfx, 0) <= MaxPrefix(fam)
    IN  IF addr \notin (Addrs4 \cup Addrs6) THEN None
        ELSE IF slashes = {} THEN Some([fam |-> fam, addr |-> addr, prefix |-> MaxPrefix(fam)])
        ELSE IF pfxOk THEN Some([fam |-> fam, addr |-> addr, prefix |-> ParseDec(pfx, 0)])
        ELSE None

\* Display for IpNetwork: always "addr/prefix"
NetToString(net) == net.addr \o <<"/">> \o ToDigits(net.prefix)

IsIpv4(net) == net.fam = "V4"

IsIpv6(net) == net.fam = "V6"

-----------------------------------------------------------------------------
(* Mechanism<T>  (src/src/mechanism/mechanism.rs) *)

\* Mechanism::new
NewMechanism(kind, qualifier, mechanism) ==
    [kind |-> kind, qualifier |-> qualifier, rrdata |-> mechanism]

new_redirect(q, d) == NewMechanism("Redirect", q, Some(d))
new_a_without_mechanism(q) == NewMechanism("A", q, None)
new_a_with_mechanism(q, d) == NewMechanism("A", q, Some(d))
new_mx_without_mechanism(q) == NewMechanism("MX", q, None)
new_mx_with_mechanism(q, d) == NewMechanism("MX", q, Some(d))
new_include(q, d) == NewMechanism("Include", q, Some(d))
new_ptr_without_mechanism(q) == NewMechanism("Ptr", q, None)
new_ptr_with_mechanism(q, d) == NewMechanism("Ptr", q, Some(d))
new_exists(q, d) == NewMechanism("Exists", q, Some(d))
new_all(q) == NewMechanism("All", q, None)
new_ip4(q, net) == NewMechanism("IpV4", q, Some(net))
new_ip6(q, net) == NewMechanism("IpV6", q, Some(net))

\* mutant: the kind is IpV4 whatever the family
new_ip_always_v4(q, net) == NewMechanism("IpV4", q, Some(net))

\* Mechanism::new_ip: the kind follows the family of the network
new_ip(q, net) == IF IsIpv4(net) THEN new_ip4(q, net) ELSE new_ip6(q, net)

\* results of the text constructors and of the parser:
\* tag "Ok" (val holds the value), "Err" (err names the error), "Panic" (the call aborts)
Ok(v) == [tag |-> "Ok", val |-> Some(v), err |-> "", text |-> <<>>]

Err(e, t) == [tag |-> "Err", val |-> None, err |-> e, text |-> t]

Panic == [tag |-> "Panic", val |-> None, err |-> "", text |-> <<>>]

\* Result::unwrap / Option::unwrap as the callers use them
IsOk(r) == r.tag = "Ok"

\* <Mechanism<String> as FromStr>::from_str
MechanismFromStr(s) ==
    IF Contains(s, T_redirect)
    THEN Ok(NewMechanism("Redirect", "Pass", Some(RSplitFirst(s, "="))))
    ELSE IF Contains(s, T_include)
    THEN Ok(new_include(ReturnAndRemoveQualifier(s)[1], RSplitFirst(s, ":")))
    ELSE Err("NotValidMechanismFormat", s)

\* <Mechanism<IpNetwork> as FromStr>::from_str
IpMechanismFromStr(s) ==
    IF Contains(s, T_ip4) \/ Contains(s, T_ip6)
    THEN LET qm   == ReturnAndRemoveQualifier(s)
             kind == IF Contains(qm[2], T_ip4bare) THEN "IpV4"
                     ELSE IF Contains(qm[2], T_ip6bare) THEN "IpV6" ELSE "IpV4"
             raw_ip == IF Contains(qm[2], T_ip4bare) THEN StripPrefix(qm[2], T_ip4)
                       ELSE IF Contains(qm[2], T_ip6bare) THEN StripPrefix(qm[2], T_ip6)
                       ELSE None
         IN  IF IsNone(raw_ip) THEN Panic
             ELSE LET parsed == ParseNet(Unwrap(raw_ip))
                  IN  IF IsSome(parsed)
                      THEN LET ip == Unwrap(parsed)
                           IN  IF IsIpv4(ip) /\ kind = "IpV4" THEN Ok(new_ip4(qm[1], ip))
                               ELSE IF IsIpv4(ip) /\ kind # "IpV4"
                                    THEN Err("NotIP6Network", NetToString(ip))
                               ELSE IF IsIpv6(ip) /\ kind = "IpV6" THEN Ok(new_ip6(qm[1], ip))
                               ELSE Err("NotIP4Network", NetToString(ip))
                      ELSE Err("NotValidIPNetwork", Unwrap(raw_ip))
    ELSE Err("NotValidMechanismFormat", s)

\* Mechanism<String>::raw
Raw(m) == IF IsNone(m.rrdata) THEN KindAsStr(m.kind) ELSE Unwrap(m.rrdata)

\* mutant: A and MX get the ':' before a payload that starts with '/' too
BuildStringColonAlways(m) ==
    LET q   == IF m.qualifier # "Pass" THEN QualifierAsStr(m.qualifier) ELSE <<>>
        tmp == IF IsSome(m.rrdata) THEN Unwrap(m.rrdata) ELSE <<>>
        sep == CASE m.kind \in {"A", "MX", "Ptr"} -> IF tmp # <<>> THEN <<":">> ELSE <<>>
                 [] OTHER -> <<>>
    IN  q \o KindAsStr(m.kind) \o sep \o tmp

\* Mechanism<String>::build_string
BuildString(m) ==
    LET q   == IF m.qualifier # "Pass" THEN QualifierAsStr(m.qualifier) ELSE <<>>
        tmp == IF IsSome(m.rrdata) THEN Unwrap(m.rrdata) ELSE <<>>
        sep == CASE m.kind \in {"A", "MX"} ->
                        IF ~StartsWith(tmp, <<"/">>) /\ tmp # <<>> THEN <<":">> ELSE <<>>
                 [] m.kind = "Ptr" -> IF tmp # <<>> THEN <<":">> ELSE <<>>
                 [] OTHER -> <<>>
    IN  q \o KindAsStr(m.kind) \o sep \o tmp

\* mutant: the qualifier is not rendered
IpBuildStringNoQualifier(m) == KindAsStr(m.kind) \o NetToString(Unwrap(m.rrdata))

\* Mechanism<IpNetwork>::build_string
IpBuildString(m) ==
    LET q == IF m.qualifier # "Pass" THEN QualifierAsStr(m.qualifier) ELSE <<>>
    IN  q \o KindAsStr(m.kind) \o NetToString(Unwrap(m.rrdata))

-----------------------------------------------------------------------------
(* helpers used by the parser and the builder *)

\* helpers::spf_check_whitespace: TRUE when two whitespace characters are adjacent
SpfCheckWhitespace(s) == \E i \in 1..(Len(s) - 1) : IsWhitespace(s[i]) /\ IsWhitespace(s[i + 1])

\* helpers::capture_matches: the A / MX / Ptr shapes,
\* [qualifier] keyword [":" domain ["/" prefixlen] | "/" prefixlen]
CaptureMatches(record, kind) ==
    LET qm   == ReturnAndRemoveQualifier(record)
        kw   == KindAsStr(kind)
        rest == SubSeq(qm[2], Len(kw) + 1, Len(qm[2]))
    IN  IF ~StartsWith(qm[2], kw) THEN None
        ELSE IF rest = <<>> THEN Some(NewMechanism(kind, qm[1], None))
        ELSE IF rest[1] = ":" /\ Len(rest) > 1 THEN Some(NewMechanism(kind, qm[1], Some(Tail(rest))))
        ELSE IF rest[1] = "/" /\ Len(rest) > 1 /\ kind # "Ptr"
             THEN Some(NewMechanism(kind, qm[1], Some(rest)))
        ELSE None

\* helpers::build_spf_str: every member preceded by one space
RECURSIVE BuildSpfStr(_)
BuildSpfStr(ms_) ==
    IF ms_ = <<>> THEN <<>> ELSE <<" ">> \o BuildString(Head(ms_)) \o BuildSpfStr(Tail(ms_))

\* helpers::build_spf_str_from_ip
RECURSIVE BuildSpfStrFromIp(_)
BuildSpfStrFromIp(ms_) ==
    IF ms_ = <<>> THEN <<>> ELSE <<" ">> \o IpBuildString(Head(ms_)) \o BuildSpfStrFromIp(Tail(ms_))

-----------------------------------------------------------------------------
(* struct Spf  (src/src/spf/mod.rs) *)

MAX_SPF_STRING_LENGTH == 255

\* <Spf as Default>::default, Spf::new
SpfDefault ==
    [ source |-> <<>>, version |-> <<>>, from_src |-> FALSE,
      redirect |-> None, is_redirected |-> FALSE,
      a |-> None, mx |-> None, include |-> None, ip4 |-> None, ip6 |-> None,
      ptr |-> None, exists |-> None, all |-> None,
      was_parsed |-> FALSE, was_validated |-> FALSE, is_valid |-> FALSE,
      warnings |-> None ]

\* the state of the parser's loop: the Record, the six vectors, and how the loop ended
ParserStart ==
    [ spf |-> SpfDefault, out |-> "run",
      vec_of_includes |-> <<>>, vec_of_ip4 |-> <<>>, vec_of_ip6 |-> <<>>,
      vec_of_a |-> <<>>, vec_of_mx |-> <<>>, vec_of_exists |-> <<>> ]

\* the ip4 / ip6 branches of the loop (kind "IpV4" with prefix "ip4:", or "IpV6" with "ip6:")
ClassifyIp(st, record, kind) ==
    LET qm  == ReturnAndRemoveQualifier(record)
        raw == StripPrefix(qm[2], KindAsStr(kind))
    IN  IF IsNone(raw) THEN st
        ELSE LET valid == ParseNet(Unwrap(raw))
             IN  IF IsNone(valid) THEN [st EXCEPT !.out = "InvalidIPAddr"]
                 ELSE IF kind = "IpV4"
                      THEN [st EXCEPT !.vec_of_ip4 = Append(@, new_ip4(qm[1], Unwrap(valid)))]
                      ELSE [st EXCEPT !.vec_of_ip6 = Append(@, new_ip6(qm[1], Unwrap(valid)))]

\* the "all" branch of the loop: Mechanism::<String>::from_str(record).unwrap()
ClassifyAll(st, record) ==
    LET r == MechanismFromStr(record)
    IN  IF IsOk(r) THEN [st EXCEPT !.spf.all = Some(Unwrap(r.val))]
        ELSE [st EXCEPT !.out = "Panic"]

\* mutant: the include rule is tried before the redirect rule
ClassifyTokenIncludeFirst(st, record) ==
    IF Contains(record, T_v1) \/ StartsWith(record, T_v2)
    THEN [st EXCEPT !.spf.version = record]
    ELSE IF Contains(record, T_include)
    THEN LET r == MechanismFromStr(record)
         IN  IF IsOk(r) THEN [st EXCEPT !.vec_of_includes = Append(@, Unwrap(r.val))] ELSE st
    ELSE IF Contains(record, T_redirect)
    THEN LET r == MechanismFromStr(record)
         IN  IF IsOk(r)
             THEN [st EXCEPT !.spf.redirect = Some(Unwrap(r.val)), !.spf.is_redirected = TRUE]
             ELSE st
    ELSE IF Contains(record, T_exists)
    THEN LET r == MechanismFromStr(record)
         IN  IF IsOk(r) THEN [st EXCEPT !.vec_of_exists = Append(@, Unwrap(r.val))] ELSE st
    ELSE IF Contains(record, T_ip4) THEN ClassifyIp(st, record, "IpV4")
    ELSE IF Contains(record, T_ip6) THEN ClassifyIp(st, record, "IpV6")
    ELSE IF EndsWith(record, T_all) THEN ClassifyAll(st, record)
    ELSE IF IsSome(CaptureMatches(record, "A"))
    THEN [st EXCEPT !.vec_of_a = Append(@, Unwrap(CaptureMatches(record, "A")))]
    ELSE IF IsSome(CaptureMatches(record, "MX"))
    THEN [st EXCEPT !.vec_of_mx = Append(@, Unwrap(CaptureMatches(record, "MX")))]
    ELSE IF IsSome(CaptureMatches(record, "Ptr"))
    THEN [st EXCEPT !.spf.ptr = Some(Unwrap(CaptureMatches(record, "Ptr")))]
    ELSE st

\* one iteration of the loop over the tokens: the classification chain
ClassifyToken(st, record) ==
    IF Contains(record, T_v1) \/ StartsWith(record, T_v2)
    THEN [st EXCEPT !.spf.version = record]
    ELSE IF Contains(record, T_redirect)
    THEN LET r == MechanismFromStr(record)
         IN  IF IsOk(r)
             THEN [st EXCEPT !.spf.redirect = Some(Unwrap(r.val)), !.spf.is_redirected = TRUE]
             ELSE st
    ELSE IF Contains(record, T_include)
    THEN LET r == MechanismFromStr(record)
         IN  IF IsOk(r) THEN [st EXCEPT !.vec_of_includes = Append(@, Unwrap(r.val))] ELSE st
    ELSE IF Contains(record, T_exists)
    THEN LET r == MechanismFromStr(record)
         IN  IF IsOk(r) THEN [st EXCEPT !.vec_of_exists = Append(@, Unwrap(r.val))] ELSE st
    ELSE IF Contains(record, T_ip4) THEN ClassifyIp(st, record, "IpV4")
    ELSE IF Contains(record, T_ip6) THEN ClassifyIp(st, record, "IpV6")
    ELSE IF EndsWith(record, T_all) THEN ClassifyAll(st, record)
    ELSE IF IsSome(CaptureMatches(record, "A"))
    THEN [st EXCEPT !.vec_of_a = Append(@, Unwrap(CaptureMatches(record, "A")))]
    ELSE IF IsSome(CaptureMatches(record, "MX"))
    THEN [st EXCEPT !.vec_of_mx = Append(@, Unwrap(CaptureMatches(record, "MX")))]
    ELSE IF IsSome(CaptureMatches(record, "Ptr"))
    THEN [st EXCEPT !.spf.ptr = Some(Unwrap(CaptureMatches(record, "Ptr")))]
    ELSE st

\* mutant: the loop ends at the first token that no arm acts on
RECURSIVE ParseLoopBreaking(_, _)
ParseLoopBreaking(st, records) ==
    IF records = <<>> \/ st.out # "run" \/ ClassifyToken(st, Head(records)) = st THEN st
    ELSE ParseLoopBreaking(ClassifyToken(st, Head(records)), Tail(records))

\* the loop: it ends at the first token that returns an error or aborts
RECURSIVE ParseLoop(_, _)
ParseLoop(st, records) ==
    IF records = <<>> \/ st.out # "run" THEN st
    ELSE ParseLoop(ClassifyToken(st, Head(records)), Tail(records))

\* mutant: the vectors are moved into the Record whether they are empty or not
InstallGroupsAlways(st, source) ==
    [ st.spf EXCEPT
        !.include = Some(st.vec_of_includes),
        !.ip4 = Some(st.vec_of_ip4),
        !.ip6 = Some(st.vec_of_ip6),
        !.a = Some(st.vec_of_a),
        !.mx = Some(st.vec_of_mx),
        !.exists = Some(st.vec_of_exists),
        !.was_parsed = TRUE,
        !.is_valid = TRUE,
        !.source = source ]

\* the vectors are moved into the Record when they are not empty; then the flags
InstallGroups(st, source) ==
    [ st.spf EXCEPT
        !.include = IF st.vec_of_includes # <<>> THEN Some(st.vec_of_includes) ELSE @,
        !.ip4 = IF st.vec_of_ip4 # <<>> THEN Some(st.vec_of_ip4) ELSE @,
        !.ip6 = IF st.vec_of_ip6 # <<>> THEN Some(st.vec_of_ip6) ELSE @,
        !.a = IF st.vec_of_a # <<>> THEN Some(st.vec_of_a) ELSE @,
        !.mx = IF st.vec_of_mx # <<>> THEN Some(st.vec_of_mx) ELSE @,
        !.exists = IF st.vec_of_exists # <<>> THEN Some(st.vec_of_exists) ELSE @,
        !.was_parsed = TRUE,
        !.is_valid = TRUE,
        !.source = source ]

\* mutant: the whitespace check is made before the length check
PreCheckWhitespaceFirst(source) ==
    IF ~StartsWith(source, T_v1) /\ ~StartsWith(source, T_v2) THEN "InvalidSource"
    ELSE IF SpfCheckWhitespace(source) THEN "WhiteSpaceSyntaxError"
    ELSE IF Len(source) > MAX_SPF_STRING_LENGTH THEN "SourceLengthExceeded"
    ELSE "Ok"

\* the three checks made before the line is split
PreCheck(source) ==
    IF ~StartsWith(source, T_v1) /\ ~StartsWith(source, T_v2) THEN "InvalidSource"
    ELSE IF Len(source) > MAX_SPF_STRING_LENGTH THEN "SourceLengthExceeded"
    ELSE IF SpfCheckWhitespace(source) THEN "WhiteSpaceSyntaxError"
    ELSE "Ok"

\* <Spf as FromStr>::from_str
SpfFromStr(s) ==
    IF PreCheck(s) # "Ok" THEN Err(PreCheck(s), <<>>)
    ELSE LET st == ParseLoop(ParserStart, SplitWhitespace(s))
         IN  CASE st.out = "run" -> Ok(InstallGroups(st, s))
               [] st.out = "Panic" -> Panic
               [] OTHER -> Err(st.out, <<>>)

\* mutant: the redirect is not rendered
BuildSpfStringNoRedirect(r) ==
    r.version
    \o (IF IsSome(r.a) THEN BuildSpfStr(Unwrap(r.a)) ELSE <<>>)
    \o (IF IsSome(r.mx) THEN BuildSpfStr(Unwrap(r.mx)) ELSE <<>>)
    \o (IF IsSome(r.include) THEN BuildSpfStr(Unwrap(r.include)) ELSE <<>>)
    \o (IF IsSome(r.ip4) THEN BuildSpfStrFromIp(Unwrap(r.ip4)) ELSE <<>>)
    \o (IF IsSome(r.ip6) THEN BuildSpfStrFromIp(Unwrap(r.ip6)) ELSE <<>>)
    \o (IF IsSome(r.exists) THEN BuildSpfStr(Unwrap(r.exists)) ELSE <<>>)
    \o (IF IsSome(r.ptr) THEN <<" ">> \o BuildString(Unwrap(r.ptr)) ELSE <<>>)
    \o (IF ~r.is_redirected /\ IsSome(r.all) THEN <<" ">> \o BuildString(Unwrap(r.all)) ELSE <<>>)

\* Spf::build_spf_string, which is what Display and to_string() give
BuildSpfString(r) ==
    r.version
    \o (IF IsSome(r.a) THEN BuildSpfStr(Unwrap(r.a)) ELSE <<>>)
    \o (IF IsSome(r.mx) THEN BuildSpfStr(Unwrap(r.mx)) ELSE <<>>)
    \o (IF IsSome(r.include) THEN BuildSpfStr(Unwrap(r.include)) ELSE <<>>)
    \o (IF IsSome(r.ip4) THEN BuildSpfStrFromIp(Unwrap(r.ip4)) ELSE <<>>)
    \o (IF IsSome(r.ip6) THEN BuildSpfStrFromIp(Unwrap(r.ip6)) ELSE <<>>)
    \o (IF IsSome(r.exists) THEN BuildSpfStr(Unwrap(r.exists)) ELSE <<>>)
    \o (IF IsSome(r.ptr) THEN <<" ">> \o BuildString(Unwrap(r.ptr)) ELSE <<>>)
    \o (IF r.is_redirected THEN <<" ">> \o BuildString(Unwrap(r.redirect)) ELSE <<>>)
    \o (IF ~r.is_redirected /\ IsSome(r.all) THEN <<" ">> \o BuildString(Unwrap(r.all)) ELSE <<>>)

\* mutant: the rendering takes the All out of the Record
to_string_taking(r) == <<BuildSpfString(r), [r EXCEPT !.all = None, !.ptr = None]>>

\* <Spf as Display>::fmt through &self: <<the text, the Record afterwards>>
to_string(r) == <<BuildSpfString(r), r>>

\* Spf::is_redirect
is_redirect(r) == r.is_redirected

\* mutant: the flag is returned whether or not the Record was parsed or validated
is_valid_flag_only(r) == r.is_valid

\* Spf::is_valid
is_valid(r) == IF r.was_parsed \/ r.was_validated THEN r.is_valid ELSE FALSE

\* Spf::is_v1, Spf::is_v2
is_v1(r) == Contains(r.version, T_v1)

is_v2(r) == StartsWith(r.version, T_v2)

\* the version setters
set_v1(r) == [r EXCEPT !.version = T_v1]
set_v2_pra(r) == [r EXCEPT !.version = T_v2pra]
set_v2_mfrom(r) == [r EXCEPT !.version = T_v2mfrom]
set_v2_pra_mfrom(r) == [r EXCEPT !.version = T_v2pra_mfrom]
set_v2_mfrom_pra(r) == [r EXCEPT !.version = T_v2mfrom_pra]

\* mutant: the All is kept when a redirect is stored
append_mechanism_of_redirect_keeping_all(r, m) ==
    [r EXCEPT !.redirect = Some(m), !.is_redirected = TRUE]

\* Spf::append_mechanism_of_redirect
append_mechanism_of_redirect(r, m) ==
    [r EXCEPT !.redirect = Some(m), !.is_redirected = TRUE, !.all = None]

\* mutant: the All is stored although a redirect is present
append_mechanism_of_all_unguarded(r, m) == [r EXCEPT !.all = Some(m)]

\* Spf::append_mechanism_of_all
append_mechanism_of_all(r, m) == IF IsNone(r.redirect) THEN [r EXCEPT !.all = Some(m)] ELSE r

\* mutant: the new member is put in front of the group
PushGroupFront(g, m) == IF IsSome(g) THEN Some(<<m>> \o Unwrap(g)) ELSE Some(<<m>>)

\* append_mechanism_of_a / _mx / _include / _exists / _ip4 / _ip6: push, or a new vector
PushGroup(g, m) == IF IsSome(g) THEN Some(Append(Unwrap(g), m)) ELSE Some(<<m>>)

\* Spf::append_mechanism
append_mechanism(r, m) ==
    CASE m.kind = "Redirect" -> append_mechanism_of_redirect(r, m)
      [] m.kind = "A" -> [r EXCEPT !.a = PushGroup(@, m)]
      [] m.kind = "MX" -> [r EXCEPT !.mx = PushGroup(@, m)]
      [] m.kind = "Include" -> [r EXCEPT !.include = PushGroup(@, m)]
      [] m.kind = "Exists" -> [r EXCEPT !.exists = PushGroup(@, m)]
      [] m.kind = "Ptr" -> [r EXCEPT !.ptr = Some(m)]
      [] m.kind = "All" -> append_mechanism_of_all(r, m)
      [] OTHER -> r

\* Spf::append_ip_mechanism (any other kind is unreachable!())
append_ip_mechanism(r, m) ==
    CASE m.kind = "IpV4" -> [r EXCEPT !.ip4 = PushGroup(@, m)]
      [] m.kind = "IpV6" -> [r EXCEPT !.ip6 = PushGroup(@, m)]

\* mutant: the A and MX groups are taken for each other
clear_mechanism_swapped(r, kind) ==
    CASE kind = "Redirect" -> [r EXCEPT !.redirect = None, !.is_redirected = FALSE]
      [] kind = "A" -> [r EXCEPT !.mx = None]
      [] kind = "MX" -> [r EXCEPT !.a = None]
      [] kind = "Include" -> [r EXCEPT !.include = None]
      [] kind = "IpV4" -> [r EXCEPT !.ip4 = None]
      [] kind = "IpV6" -> [r EXCEPT !.ip6 = None]
      [] kind = "Exists" -> [r EXCEPT !.exists = None]
      [] kind = "Ptr" -> [r EXCEPT !.ptr = None]
      [] kind = "All" -> [r EXCEPT !.all = None]

\* Spf::clear_mechanism
clear_mechanism(r, kind) ==
    CASE kind = "Redirect" -> [r EXCEPT !.redirect = None, !.is_redirected = FALSE]
      [] kind = "A" -> [r EXCEPT !.a = None]
      [] kind = "MX" -> [r EXCEPT !.mx = None]
      [] kind = "Include" -> [r EXCEPT !.include = None]
      [] kind = "IpV4" -> [r EXCEPT !.ip4 = None]
      [] kind = "IpV6" -> [r EXCEPT !.ip6 = None]
      [] kind = "Exists" -> [r EXCEPT !.exists = None]
      [] kind = "Ptr" -> [r EXCEPT !.ptr = None]
      [] kind = "All" -> [r EXCEPT !.all = None]

\* validate::check_lookup_count: the A, MX, Include, Redirect and Exists mechanisms
GroupLen(g) == IF IsSome(g) THEN Len(Unwrap(g)) ELSE 0

CheckLookupCount(r) ==
    GroupLen(r.a) + GroupLen(r.mx) + GroupLen(r.include) + GroupLen(r.exists)
    + (IF IsSome(r.redirect) THEN 1 ELSE 0)

LookupLimit == 10

\* Spf::try_validate: <<the result, the Record afterwards>>
try_validate(r) ==
    IF r.from_src /\ Len(r.source) > MAX_SPF_STRING_LENGTH THEN <<"SourceLengthExceeded", r>>
    ELSE IF r.from_src /\ ~r.was_parsed THEN <<"HasNotBeenParsed", r>>
    ELSE IF IsSome(r.redirect) /\ IsSome(r.all) THEN <<"RedirectWithAllMechanism", r>>
    ELSE IF CheckLookupCount(r) > LookupLimit THEN <<"LookupLimitExceeded", r>>
    ELSE <<"Ok", [r EXCEPT !.is_valid = TRUE]>>

-----------------------------------------------------------------------------
(* Inputs *)

Dom == <<"d">>

Tok(q, body) == q \o body

Pad(n) == [i \in 1..n |-> "x"]

Join(v, toks) == v \o Concat([i \in 1..Len(toks) |-> <<" ">> \o toks[i]])

Versions == {T_v1, T_v2pra, T_v2mfrom, T_v2pra_mfrom, T_v2mfrom_pra}

Ip4Lit == <<"1", ".", "2", ".", "3", ".", "4">>
Ip4Net == <<"1", "0", ".", "0", ".", "0", ".", "0", "/", "8">>
Ip6Lit == <<":", ":", "1">>
Ip6Net == <<"f", "e", "8", "0", ":", ":", "/", "1", "0">>
BadLit == <<"x">>

\* the directive tokens of the generated lines
Tokens ==
    { T_a,
      <<"-">> \o T_a \o <<":">> \o Dom,
      T_mx,
      <<"~">> \o T_mx \o <<"/", "2", "4">>,
      <<"?">> \o T_ptr,
      T_include \o Dom,
      <<"-">> \o T_include \o Dom,
      T_exists \o Dom,
      T_redirect \o Dom,
      T_ip4 \o Ip4Lit,
      <<"-">> \o T_ip4 \o Ip4Net,
      T_ip6 \o Ip6Lit,
      T_ip4 \o Ip6Lit,
      T_ip6 \o Ip4Lit,
      T_ip4 \o BadLit,
      <<"-">> \o T_all,
      T_all,
      <<"f", "o", "o">>,
      T_ip4 \o T_include \o Dom,
      <<"x">> \o T_v1,
      T_v2pra }

TokenSeqs == UNION { [1..n -> Tokens] : n \in 0..MaxTokens }

FreeLines == { Join(v, toks) : v \in Versions, toks \in TokenSeqs }

\* lines around the three structural checks: prefix, length, whitespace
StructLine(prefixOk, gap, total, tok) ==
    LET head == (IF prefixOk THEN T_v1 ELSE Tail(T_v1)) \o gap \o tok \o <<" ">> \o T_include
    IN  head \o Pad(total - Len(head))

StructLines ==
    { StructLine(p, g, n, t) :
        p \in BOOLEAN,
        g \in { <<" ">>, <<" ", " ">>, <<" ", "\t", " ">> },
        n \in { 40, MAX_SPF_STRING_LENGTH, MAX_SPF_STRING_LENGTH + 1 },
        t \in { T_a, T_ip4 \o BadLit } }

\* "v=spf1 a mx <q>all" of the crate documentation, for every qualifier prefix
DocLines == { Join(T_v1, <<T_a, T_mx, q \o T_all>>) : q \in { <<>>, <<"+">>, <<"-">>, <<"~">>, <<"?">> } }

\* lines whose tokens stand in the builder's group order: any subset of CanonTokens, in order
CanonTokens ==
    << T_a, <<"~">> \o T_mx \o <<":">> \o Dom \o <<"/", "2", "4">>, <<"?">> \o T_include \o Dom,
       T_ip4 \o Ip4Lit, <<"-">> \o T_ip6 \o Ip6Net, T_exists \o Dom, T_ptr \o <<":">> \o Dom,
       T_redirect \o Dom >>

RECURSIVE Pick(_, _)
Pick(toks, keep) ==
    IF toks = <<>> THEN <<>>
    ELSE (IF Len(toks) \in keep THEN <<toks[Len(toks)]>> ELSE <<>>)
         \o Pick(SubSeq(toks, 1, Len(toks) - 1), keep)

RECURSIVE Reverse(_)
Reverse(q) == IF q = <<>> THEN <<>> ELSE Reverse(Tail(q)) \o <<Head(q)>>

CanonLines == { Join(T_v2mfrom, Reverse(Pick(CanonTokens, keep))) : keep \in SUBSET (1..Len(CanonTokens)) }

\* long lines in the builder's group order: an include with a long domain, then an ip4
\* token without prefix length, which the builder renders three characters longer
LongCanonLine(total) ==
    LET tail == <<" ">> \o T_ip4 \o Ip4Lit
        head == T_v1 \o <<" ">> \o T_include
    IN  head \o Pad(total - Len(head) - Len(tail)) \o tail

LongCanonLines ==
    { LongCanonLine(n) : n \in { MAX_SPF_STRING_LENGTH - 3, MAX_SPF_STRING_LENGTH - 2,
                                 MAX_SPF_STRING_LENGTH } }

\* the four forms of an MX token, under every qualifier prefix, alone and before "~all"
MxForms ==
    { T_mx, T_mx \o <<"/", "2", "4">>, T_mx \o <<":">> \o Dom,
      T_mx \o <<":">> \o Dom \o <<"/", "2", "4">> }

MxLines ==
    { Join(T_v1, <<q \o f>> \o rest) :
        q \in { <<>>, <<"+">>, <<"-">>, <<"~">>, <<"?">> },
        f \in MxForms,
        rest \in { <<>>, << <<"~">> \o T_all >> } }

\* tokens that more than one rule of the classification chain matches
OverlapTokens ==
    { T_redirect \o T_include \o Dom,
      T_include \o Dom \o T_all,
      T_redirect \o Dom \o T_all,
      T_exists \o T_ip4 \o BadLit,
      T_ip6 \o T_ip4 \o Ip4Lit,
      T_a \o <<":">> \o Dom \o T_all,
      T_mx \o T_all }

OverlapLines ==
    { Join(T_v1, pre \o <<t>>) :
        pre \in { <<>>, <<T_a>>, << <<"~">> \o T_include \o Dom >> },
        t \in OverlapTokens }

\* tokens that no rule of the classification chain matches, at every place of a line
UnknownTokens == { <<"f", "o", "o">>, T_ptr \o <<"/", "2", "4">>, <<"-">> }

UnknownLines ==
    { Join(T_v1, pre \o <<u>> \o post) :
        pre \in { <<>>, <<T_a>>, << T_redirect \o Dom >> },
        u \in UnknownTokens,
        post \in { <<>>, <<T_mx>>, << T_ip4 \o Ip4Lit >>, << T_ip4 \o BadLit >>, << <<"-">> \o T_all >> } }

Lines == FreeLines \cup StructLines \cup DocLines \cup CanonLines \cup LongCanonLines \cup MxLines
         \cup OverlapLines \cup UnknownLines

\* the lines a Record of the lifecycle is parsed from
SeedLines ==
    { Join(T_v1, <<T_a, T_mx>>),
      Join(T_v1, <<T_a, T_mx, <<"-">> \o T_all>>),
      Join(T_v1, <<T_redirect \o Dom>>),
      Join(T_v1, <<T_redirect \o Dom, <<"-">> \o T_all>>),
      Join(T_v1, <<T_mx, T_ip4 \o Ip4Lit, <<"-">> \o T_a \o <<":">> \o Dom, T_a, T_ip4 \o Ip4Lit>>),
      Join(T_v2pra, <<T_include \o Dom, T_ip4 \o Ip4Lit>>),
      Join(T_v1, <<T_ip6 \o BadLit>>),
      T_v1 \o <<" ", " ">> \o T_a,
      Join(T_v1, [i \in 1..LookupLimit |-> T_a]),
      LongCanonLine(MAX_SPF_STRING_LENGTH) }

\* the mechanisms handed to append_mechanism and append_ip_mechanism
TextMechs ==
    { new_a_without_mechanism("Pass"),
      new_a_with_mechanism("Fail", <<"/", "2", "4">>),
      new_mx_without_mechanism("Pass"),
      new_include("SoftFail", Dom),
      new_exists("Pass", Dom),
      new_ptr_without_mechanism("Neutral"),
      new_redirect("Pass", Dom),
      new_all("Neutral"),
      new_all("Fail") }

IpMechs ==
    { new_ip("Pass", Unwrap(ParseNet(Ip4Lit))),
      new_ip("Fail", Unwrap(ParseNet(Ip6Net))) }

\* the texts handed to the two text constructors of Mechanism
MechInputs ==
    { q \o p \o l :
        q \in { <<>>, <<"+">>, <<"-">>, <<"~">>, <<"?">>, <<"x">> },
        p \in { T_ip4, T_ip6, T_include, T_redirect, T_exists, T_a, <<>> },
        l \in { Ip4Lit, Ip4Net, Ip6Lit, Ip6Net, BadLit, Dom \o T_ip4bare, <<"d", ":", "e">> } }

-----------------------------------------------------------------------------
(* The state machines *)

NoResult == [tag |-> "None", val |-> None, err |-> "", text |-> <<>>]

\* the last operation on the Record: its name, the kind and mechanism it was given, the
\* result of a validation, the text of a rendering (for a parse: the line that was given)
\* and of the rendering just before it,
\* the text of the Record before an append (pre), and for a clear the operation before it
\* (pop, pkind) with the text of the Record before that operation (ppre); the append of an
\* All records the operation before it (pop, pkind) as well
NoOp == [op |-> "none", kind |-> "", m |-> None, res |-> "", text |-> <<>>, prev |-> None,
         pre |-> <<>>, pop |-> "", pkind |-> "", ppre |-> <<>>]

IdleRecord == pc = "idle" /\ spf = SpfDefault /\ perr = "none" /\ last = NoOp /\ nops = 0

IdleParse == pline = <<>> /\ pstage = "idle" /\ pres = NoResult /\ ptext = <<>> /\ pres2 = NoResult

IdleMech == ms = <<>> /\ mstage = "idle" /\ mres = NoResult
            /\ bm = <<>> /\ bstage = "idle" /\ btext = <<>>

recordVars == <<pc, spf, perr, last, nops>>

parseVars == <<pline, pstage, pres, ptext, pres2>>

mechVars == <<ms, mstage, mres, bm, bstage, btext>>

buildVars == <<bm, bstage, btext>>

(* ---- the lifecycle of one Record ---- *)

Init == pc = "start" /\ spf = SpfDefault /\ perr = "none" /\ last = NoOp /\ nops = 0
        /\ IdleParse /\ IdleMech

\* Spf::new()
New ==
    /\ pc = "start"
    /\ pc' = "built"
    /\ spf' = SpfDefault
    /\ last' = [NoOp EXCEPT !.op = "new"]
    /\ UNCHANGED <<perr, nops, parseVars, mechVars>>

\* line.parse::<Spf>()
FromStr(line) ==
    /\ pc = "start"
    /\ LET r == SpfFromStr(line)
       IN  /\ pc' = CASE r.tag = "Ok" -> "parsed" [] r.tag = "Err" -> "failed" [] OTHER -> "aborted"
           /\ spf' = IF IsOk(r) THEN Unwrap(r.val) ELSE spf
           /\ perr' = IF r.tag = "Err" THEN r.err ELSE r.tag
    /\ last' = [NoOp EXCEPT !.op = "from_str", !.text = line]
    /\ UNCHANGED <<nops, parseVars, mechVars>>

Live == pc \in {"built", "parsed"} /\ nops < MaxOps

SetVersion ==
    /\ Live
    /\ \/ spf' = set_v1(spf) /\ last' = [NoOp EXCEPT !.op = "set_v1"]
       \/ spf' = set_v2_pra(spf) /\ last' = [NoOp EXCEPT !.op = "set_v2_pra"]
       \/ spf' = set_v2_mfrom(spf) /\ last' = [NoOp EXCEPT !.op = "set_v2_mfrom"]
       \/ spf' = set_v2_pra_mfrom(spf) /\ last' = [NoOp EXCEPT !.op = "set_v2_pra_mfrom"]
       \/ spf' = set_v2_mfrom_pra(spf) /\ last' = [NoOp EXCEPT !.op = "set_v2_mfrom_pra"]
    /\ nops' = nops + 1
    /\ UNCHANGED <<pc, perr, parseVars, mechVars>>

AppendMechanism(m) ==
    /\ Live
    /\ spf' = append_mechanism(spf, m)
    /\ last' = [NoOp EXCEPT !.op = "append_mechanism", !.kind = m.kind, !.m = Some(m),
                            !.pre = BuildSpfString(spf),
                            !.pop = IF m.kind = "All" THEN last.op ELSE "",
                            !.pkind = IF m.kind = "All" THEN last.kind ELSE ""]
    /\ nops' = nops + 1
    /\ UNCHANGED <<pc, perr, parseVars, mechVars>>

AppendIpMechanism(m) ==
    /\ Live
    /\ spf' = append_ip_mechanism(spf, m)
    /\ last' = [NoOp EXCEPT !.op = "append_ip_mechanism", !.kind = m.kind, !.m = Some(m)]
    /\ nops' = nops + 1
    /\ UNCHANGED <<pc, perr, parseVars, mechVars>>

ClearMechanism(kind) ==
    /\ Live
    /\ spf' = clear_mechanism(spf, kind)
    /\ last' = [NoOp EXCEPT !.op = "clear_mechanism", !.kind = kind,
                            !.pop = last.op, !.pkind = last.kind, !.ppre = last.pre]
    /\ nops' = nops + 1
    /\ UNCHANGED <<pc, perr, parseVars, mechVars>>

TryValidate ==
    /\ Live
    /\ spf' = try_validate(spf)[2]
    /\ last' = [NoOp EXCEPT !.op = "try_validate", !.res = try_validate(spf)[1]]
    /\ nops' = nops + 1
    /\ UNCHANGED <<pc, perr, parseVars, mechVars>>

\* spf.to_string()
Render ==
    /\ pc \in {"built", "parsed"}
    /\ spf' = to_string(spf)[2]
    /\ last' = [NoOp EXCEPT !.op = "to_string", !.text = to_string(spf)[1],
                            !.prev = IF last.op = "to_string" THEN Some(last.text) ELSE None]
    /\ UNCHANGED <<pc, perr, nops, parseVars, mechVars>>

Next ==
    \/ New
    \/ \E line \in SeedLines : FromStr(line)
    \/ SetVersion
    \/ \E m \in TextMechs : AppendMechanism(m)
    \/ \E m \in IpMechs : AppendIpMechanism(m)
    \/ \E kind \in Kinds : ClearMechanism(kind)
    \/ TryValidate
    \/ Render

Spec == Init /\ [][Next]_vars

(* ---- the parse pipeline: parse a line, render the Record, parse the rendered text ---- *)

InitParse == pline \in Lines /\ pstage = "input" /\ pres = NoResult /\ ptext = <<>>
             /\ pres2 = NoResult /\ IdleRecord /\ IdleMech

DoParse ==
    /\ pstage = "input"
    /\ pres' = SpfFromStr(pline)
    /\ pstage' = "parsed"
    /\ UNCHANGED <<pline, ptext, pres2, recordVars, mechVars>>

DoRender ==
    /\ pstage = "parsed" /\ IsOk(pres)
    /\ ptext' = BuildSpfString(Unwrap(pres.val))
    /\ pstage' = "rendered"
    /\ UNCHANGED <<pline, pres, pres2, recordVars, mechVars>>

DoReparse ==
    /\ pstage = "rendered"
    /\ pres2' = SpfFromStr(ptext)
    /\ pstage' = "reparsed"
    /\ UNCHANGED <<pline, pres, ptext, recordVars, mechVars>>

NextParse == DoParse \/ DoRender \/ DoReparse

SpecParse == InitParse /\ [][NextParse]_vars

(* ---- the text constructors of Mechanism ---- *)

InitMech == ms \in MechInputs /\ mstage = "input" /\ mres = NoResult /\ IdleRecord /\ IdleParse
            /\ bm = <<>> /\ bstage = "idle" /\ btext = <<>>

IpFromStr ==
    /\ mstage = "input"
    /\ mres' = IpMechanismFromStr(ms)
    /\ mstage' = "ip"
    /\ UNCHANGED <<ms, recordVars, parseVars, buildVars>>

TextFromStr ==
    /\ mstage = "input"
    /\ mres' = MechanismFromStr(ms)
    /\ mstage' = "text"
    /\ UNCHANGED <<ms, recordVars, parseVars, buildVars>>

NextMech == IpFromStr \/ TextFromStr

SpecMech == InitMech /\ [][NextMech]_vars

(* ---- the rendering of one text mechanism ---- *)

\* the mechanisms Mechanism::new can make from a kind, a qualifier and an optional payload
BuildMechs ==
    { NewMechanism(k, q, p) :
        k \in {"A", "MX", "Ptr", "Include", "Exists", "Redirect", "All"},
        q \in Qualifiers,
        p \in { None, Some(<<>>), Some(Dom), Some(<<"/", "2", "4">>),
                Some(Dom \o <<"/", "2", "4">>) } }

InitBuild == bm \in BuildMechs /\ bstage = "input" /\ btext = <<>>
             /\ IdleRecord /\ IdleParse /\ ms = <<>> /\ mstage = "idle" /\ mres = NoResult

\* m.to_string()
DoBuildString ==
    /\ bstage = "input"
    /\ btext' = BuildString(bm)
    /\ bstage' = "built"
    /\ UNCHANGED <<bm, ms, mstage, mres, recordVars, parseVars>>

NextBuild == DoBuildString

SpecBuild == InitBuild /\ [][NextBuild]_vars

-----------------------------------------------------------------------------
(* The kind of a token: the rule of the classification chain that takes it *)

TokenKind(record) ==
    IF Contains(record, T_v1) \/ StartsWith(record, T_v2) THEN "Version"
    ELSE IF Contains(record, T_redirect) THEN "Redirect"
    ELSE IF Contains(record, T_include) THEN "Include"
    ELSE IF Contains(record, T_exists) THEN "Exists"
    ELSE IF Contains(record, T_ip4) THEN "IpV4"
    ELSE IF Contains(record, T_ip6) THEN "IpV6"
    ELSE IF EndsWith(record, T_all) THEN "All"
    ELSE IF IsSome(CaptureMatches(record, "A")) THEN "A"
    ELSE IF IsSome(CaptureMatches(record, "MX")) THEN "MX"
    ELSE IF IsSome(CaptureMatches(record, "Ptr")) THEN "Ptr"
    ELSE "Unknown"

-----------------------------------------------------------------------------
(* C1 *)

DocQuals == { <<>>, <<"+">>, <<"-">>, <<"~">>, <<"?">> }

DocLine(q) == Join(T_v1, <<T_a, T_mx, q \o T_all>>)

\* C1: for every qualifier prefix q, parsing "v=spf1 a mx <q>all" returns a Record whose
\* a() and mx() hold one bare Pass mechanism each, whose all() has the qualifier of q,
\* and whose rendered text is the input with a leading "+" elided.
C1_DocLineParses ==
    \A q \in DocQuals :
        (pstage # "input" /\ pline = DocLine(q)) =>
            /\ IsOk(pres)
            /\ LET r == Unwrap(pres.val)
               IN  /\ r.a = Some(<<new_a_without_mechanism("Pass")>>)
                   /\ r.mx = Some(<<new_mx_without_mechanism("Pass")>>)
                   /\ IsSome(r.all)
                   /\ Unwrap(r.all).qualifier = (IF q = <<>> THEN "Pass" ELSE CharToQualifier(q[1]))
                   /\ BuildSpfString(r) = DocLine(IF q = <<"+">> THEN <<>> ELSE q)

-----------------------------------------------------------------------------
(* C2 *)

\* C2: append_mechanism of a Redirect leaves redirect() present and all() absent whatever
\* was set before; append_mechanism of an All while redirect() is present changes nothing.
C2_RedirectExcludesAll ==
    [][ /\ (last'.op = "append_mechanism" /\ last'.kind = "Redirect")
            => (spf'.redirect = last'.m /\ IsNone(spf'.all))
        /\ (last'.op = "append_mechanism" /\ last'.kind = "All" /\ IsSome(spf.redirect))
            => spf' = spf ]_vars

\* an All was appended to a built Record that holds a redirect, and all() is absent
C2_Witness ==
    /\ pc = "built" /\ last.op = "append_mechanism" /\ last.kind = "All"
    /\ IsSome(spf.redirect) /\ IsNone(spf.all)

-----------------------------------------------------------------------------
(* C3 *)

Alive == pc \in {"built", "parsed"}

RenderedTokens(r) == SplitWhitespace(BuildSpfString(r))

RenderedKinds(r) == LET toks == RenderedTokens(r) IN { TokenKind(toks[i]) : i \in 1..Len(toks) }

LastOf(q) == q[Len(q)]

-----------------------------------------------------------------------------
(* C4 *)

GroupKinds == {"A", "MX", "Include", "IpV4", "IpV6", "Exists"}

\* the members of the group of kind k, the empty sequence when the group is absent
GroupOf(r, k) ==
    LET g == CASE k = "A" -> r.a [] k = "MX" -> r.mx [] k = "Include" -> r.include
               [] k = "IpV4" -> r.ip4 [] k = "IpV6" -> r.ip6 [] k = "Exists" -> r.exists
    IN  IF IsSome(g) THEN Unwrap(g) ELSE <<>>

TextsOf(ms_) == [i \in 1..Len(ms_) |-> BuildString(ms_[i])]

IpTextsOf(ms_) == [i \in 1..Len(ms_) |-> IpBuildString(ms_[i])]

\* the directives of a Record in the fixed order of the builder
ExpectedTokens(r) ==
    TextsOf(GroupOf(r, "A")) \o TextsOf(GroupOf(r, "MX")) \o TextsOf(GroupOf(r, "Include"))
    \o IpTextsOf(GroupOf(r, "IpV4")) \o IpTextsOf(GroupOf(r, "IpV6"))
    \o TextsOf(GroupOf(r, "Exists"))
    \o (IF IsSome(r.ptr) THEN <<BuildString(Unwrap(r.ptr))>> ELSE <<>>)
    \o (IF r.is_redirected THEN <<BuildString(Unwrap(r.redirect))>>
        ELSE IF IsSome(r.all) THEN <<BuildString(Unwrap(r.all))>> ELSE <<>>)

\* the members that the parse of the one-token line "v=spf1 <tok>" puts in group k
SingleGroup(tok, k) ==
    LET p == SpfFromStr(Join(T_v1, <<tok>>))
    IN  IF IsOk(p) THEN GroupOf(Unwrap(p.val), k) ELSE <<>>

\* C4: the rendered text is the version, then the A, MX, Include, IpV4, IpV6 and Exists
\* members, then Ptr, then Redirect or else All, each preceded by exactly one space; an
\* append puts the member last in its group and leaves the other groups alone; a parse
\* fills each group in the order of the tokens of the line.
C4_RenderOrder ==
    [][ Alive' =>
          /\ BuildSpfString(spf') = Join(spf'.version, ExpectedTokens(spf'))
          /\ (last'.op \in {"append_mechanism", "append_ip_mechanism"} /\ last'.kind \in GroupKinds)
                => \A k \in GroupKinds :
                      GroupOf(spf', k) = GroupOf(spf, k) \o (IF k = last'.kind THEN last'.m ELSE <<>>)
          /\ last'.op = "from_str"
                => \A k \in GroupKinds :
                      GroupOf(spf', k) =
                          Concat([i \in 1..Len(SplitWhitespace(spf'.source)) |->
                                      SingleGroup(SplitWhitespace(spf'.source)[i], k)]) ]_vars

\* two equal networks were appended before an MX: both are kept, and the MX is rendered first
C4_Witness ==
    /\ pc = "built" /\ last.op = "append_mechanism" /\ last.kind = "MX"
    /\ Len(GroupOf(spf, "IpV4")) = 2 /\ GroupOf(spf, "IpV4")[1] = GroupOf(spf, "IpV4")[2]
    /\ TokenKind(RenderedTokens(spf)[1]) = "MX"

-----------------------------------------------------------------------------
(* C5 *)

StructuralErrors == {"InvalidSource", "SourceLengthExceeded", "WhiteSpaceSyntaxError"}

HasMarker(s) == StartsWith(s, T_v1) \/ StartsWith(s, T_v2)

Doubled(s) == \E i \in 1..(Len(s) - 1) : s[i] \in {" ", "\t"} /\ s[i + 1] \in {" ", "\t"}

\* C5: a line that starts with neither marker fails with InvalidSource; otherwise a line of
\* more than 255 characters fails with SourceLengthExceeded; otherwise a line with two
\* adjacent whitespace characters fails with WhiteSpaceSyntaxError; a line that passes the
\* three checks (a line of exactly 255 among them) gets none of the three errors.
C5_StructuralChecks ==
    pstage # "input" =>
        /\ ~HasMarker(pline) => (pres.tag = "Err" /\ pres.err = "InvalidSource")
        /\ (HasMarker(pline) /\ Len(pline) > 255)
              => (pres.tag = "Err" /\ pres.err = "SourceLengthExceeded")
        /\ (HasMarker(pline) /\ Len(pline) <= 255 /\ Doubled(pline))
              => (pres.tag = "Err" /\ pres.err = "WhiteSpaceSyntaxError")
        /\ (HasMarker(pline) /\ Len(pline) <= 255 /\ ~Doubled(pline))
              => pres.err \notin StructuralErrors

\* a line of 256 characters with a doubled space and a malformed ip4 token: the length is reported
C5_Witness ==
    /\ pstage = "parsed" /\ HasMarker(pline) /\ Len(pline) = 256 /\ Doubled(pline)
    /\ Contains(pline, T_ip4 \o BadLit)
    /\ pres.err = "SourceLengthExceeded"

-----------------------------------------------------------------------------
(* C6 *)

LineTokens(s) == SplitWhitespace(s)

\* a token that is a directive of the record grammar: a known shape, and for ip4 / ip6 a
\* literal of that family after the prefix
IsDirective(tok) ==
    LET body == ReturnAndRemoveQualifier(tok)[2]
    IN  CASE TokenKind(tok) \in {"Version", "Unknown"} -> FALSE
          [] TokenKind(tok) = "IpV4" ->
                /\ StartsWith(body, T_ip4)
                /\ IsSome(ParseNet(Unwrap(StripPrefix(body, T_ip4))))
                /\ IsIpv4(Unwrap(ParseNet(Unwrap(StripPrefix(body, T_ip4)))))
          [] TokenKind(tok) = "IpV6" ->
                /\ StartsWith(body, T_ip6)
                /\ IsSome(ParseNet(Unwrap(StripPrefix(body, T_ip6))))
                /\ IsIpv6(Unwrap(ParseNet(Unwrap(StripPrefix(body, T_ip6)))))
          [] OTHER -> TRUE

\* a line of the record grammar: a recognized version, then directives, single spaces
IsGrammatical(s) ==
    /\ LineTokens(s) # <<>>
    /\ LineTokens(s)[1] \in Versions
    /\ StartsWith(s, LineTokens(s)[1])
    /\ \A i \in 2..Len(LineTokens(s)) : IsDirective(LineTokens(s)[i])

\* C6: every line that starts with a recognized version marker, is at most 255 characters
\* long and has no doubled whitespace parses successfully, and version() is that marker
\* (stated here for the lines of the record grammar only, where it already fails).
C6_ValidLineParses ==
    (pstage # "input" /\ IsGrammatical(pline) /\ Len(pline) <= 255 /\ ~Doubled(pline)) =>
        /\ IsOk(pres)
        /\ Unwrap(pres.val).version = LineTokens(pline)[1]

-----------------------------------------------------------------------------
(* C7 *)

\* an ip4 / ip6 token, taken by the rule of its own prefix, whose literal does not parse
IsBadIpToken(tok) ==
    LET body == ReturnAndRemoveQualifier(tok)[2]
    IN  \/ /\ TokenKind(tok) = "IpV4" /\ StartsWith(body, T_ip4)
           /\ IsNone(ParseNet(Unwrap(StripPrefix(body, T_ip4))))
        \/ /\ TokenKind(tok) = "IpV6" /\ StartsWith(body, T_ip6)
           /\ IsNone(ParseNet(Unwrap(StripPrefix(body, T_ip6))))

\* C7: when a line passes the structural checks and one of its tokens is an ip4: / ip6:
\* token with a malformed literal, the parse returns InvalidIPAddr, whatever the other
\* tokens are and wherever the token stands.
C7_BadIpIsInvalidIPAddr ==
    (/\ pstage # "input" /\ PreCheck(pline) = "Ok"
     /\ \E i \in 1..Len(LineTokens(pline)) : IsBadIpToken(LineTokens(pline)[i]))
        => (pres.tag = "Err" /\ pres.err = "InvalidIPAddr")

-----------------------------------------------------------------------------
(* C8 *)

QualPrefixes == { <<>>, <<"+">>, <<"-">>, <<"~">>, <<"?">> }

QualOf(q) == IF q = <<>> THEN "Pass" ELSE CharToQualifier(q[1])

AllLiterals == { Ip4Lit, Ip4Net, Ip6Lit, Ip6Net, BadLit, Dom \o T_ip4bare, <<"d", ":", "e">> }

\* C8: the text constructor of an IP mechanism returns NotIP4Network for "[q]ip4:" with an
\* IPv6 literal, NotIP6Network for "[q]ip6:" with an IPv4 literal, the mechanism of the
\* kind, qualifier and network for a literal of the matching family, and NotValidIPNetwork
\* for a literal that does not parse.
C8_IpConstructor ==
    mstage = "ip" =>
        \A q \in QualPrefixes, l \in AllLiterals :
            /\ ms = q \o T_ip4 \o l =>
                  CASE IsNone(ParseNet(l)) -> (mres.tag = "Err" /\ mres.err = "NotValidIPNetwork")
                    [] IsSome(ParseNet(l)) /\ IsIpv6(Unwrap(ParseNet(l))) ->
                          (mres.tag = "Err" /\ mres.err = "NotIP4Network")
                    [] OTHER -> mres = Ok(NewMechanism("IpV4", QualOf(q), ParseNet(l)))
            /\ ms = q \o T_ip6 \o l =>
                  CASE IsNone(ParseNet(l)) -> (mres.tag = "Err" /\ mres.err = "NotValidIPNetwork")
                    [] IsSome(ParseNet(l)) /\ IsIpv4(Unwrap(ParseNet(l))) ->
                          (mres.tag = "Err" /\ mres.err = "NotIP6Network")
                    [] OTHER -> mres = Ok(NewMechanism("IpV6", QualOf(q), ParseNet(l)))

-----------------------------------------------------------------------------
(* C9 *)

\* C9: in a Record returned by a parse every member of ip4() has kind IpV4 and holds an
\* IPv4 network, and every member of ip6() has kind IpV6 and holds an IPv6 network.
C9_IpKindMatchesFamily ==
    (pstage # "input" /\ IsOk(pres)) =>
        LET r == Unwrap(pres.val)
        IN  /\ \A i \in 1..Len(GroupOf(r, "IpV4")) :
                  /\ GroupOf(r, "IpV4")[i].kind = "IpV4"
                  /\ IsIpv4(Unwrap(GroupOf(r, "IpV4")[i].rrdata))
            /\ \A i \in 1..Len(GroupOf(r, "IpV6")) :
                  /\ GroupOf(r, "IpV6")[i].kind = "IpV6"
                  /\ IsIpv6(Unwrap(GroupOf(r, "IpV6")[i].rrdata))

-----------------------------------------------------------------------------
(* C10 *)

GroupRank(k) ==
    CASE k = "A" -> 1 [] k = "MX" -> 2 [] k = "Include" -> 3 [] k = "IpV4" -> 4
      [] k = "IpV6" -> 5 [] k = "Exists" -> 6 [] k = "Ptr" -> 7 [] k = "Redirect" -> 8
      [] k = "All" -> 8 [] OTHER -> 0

\* the directives of the line stand in the group order of the builder
CanonicalOrder(s) ==
    LET toks == LineTokens(s)
        dirs == { i \in 1..Len(toks) : GroupRank(TokenKind(toks[i])) > 0 }
    IN  \A i, j \in dirs : i < j => GroupRank(TokenKind(toks[i])) <= GroupRank(TokenKind(toks[j]))

Count(x, q) == Cardinality({ i \in 1..Len(q) : q[i] = x })

SameBag(q1, q2) ==
    /\ Len(q1) = Len(q2)
    /\ \A i \in 1..Len(q1) : Count(q1[i], q1) = Count(q1[i], q2)

SameContents(r1, r2) ==
    /\ r1.version = r2.version
    /\ \A k \in GroupKinds : SameBag(GroupOf(r1, k), GroupOf(r2, k))
    /\ \A k \in GroupKinds : (GroupOf(r1, k) = <<>>) = (GroupOf(r2, k) = <<>>)
    /\ r1.ptr = r2.ptr
    /\ r1.redirect = r2.redirect
    /\ r1.is_redirected = r2.is_redirected
    /\ r1.all = r2.all

\* C10 as stated: for every line that parses and whose directives stand in the group order
\* of the builder, the rendered text parses and gives the same version and group contents.
C10_RoundTripAnyLine ==
    (pstage = "reparsed" /\ CanonicalOrder(pline)) =>
        (IsOk(pres2) /\ SameContents(Unwrap(pres.val), Unwrap(pres2.val)))

\* C10 (amended): for every line that parses, whose directives stand in the group order of
\* the builder and whose rendered text is at most 255 characters long and starts with
\* "v=spf1" or "spf2.0", the rendered text parses and gives the same version and the same
\* contents of every group, Ptr, Redirect and All.
C10_RoundTrip ==
    (pstage = "reparsed" /\ CanonicalOrder(pline) /\ Len(ptext) <= 255 /\ HasMarker(ptext)) =>
        (IsOk(pres2) /\ SameContents(Unwrap(pres.val), Unwrap(pres2.val)))

\* a line in group order with members in four groups, a Ptr and a redirect, whose rendered
\* text differs from the line, was rendered and parsed again
C10_Witness ==
    /\ pstage = "reparsed" /\ CanonicalOrder(pline) /\ IsOk(pres2)
    /\ ptext # pline
    /\ Len(ptext) <= 255 /\ HasMarker(ptext)
    /\ \A k \in {"A", "MX", "Include", "IpV4", "IpV6"} : GroupOf(Unwrap(pres2.val), k) # <<>>
    /\ IsSome(Unwrap(pres2.val).ptr) /\ IsSome(Unwrap(pres2.val).redirect)

-----------------------------------------------------------------------------
(* C11 *)

-----------------------------------------------------------------------------
(* C12 *)

DirectiveKinds == GroupKinds \cup {"Ptr", "Redirect", "All"}

\* the mechanisms of kind k that a Record holds
MechsOfKind(r, k) ==
    CASE k \in GroupKinds -> GroupOf(r, k)
      [] k = "Ptr" -> r.ptr
      [] k = "Redirect" -> r.redirect
      [] k = "All" -> r.all

\* the rendered text of a mechanism of either payload type
TextOfMech(m) == IF m.kind \in {"IpV4", "IpV6"} THEN IpBuildString(m) ELSE BuildString(m)

\* Pass renders the kind prefix first, the other qualifiers their character and then the prefix
QualifierRendered(m) ==
    IF m.qualifier = "Pass"
    THEN StartsWith(TextOfMech(m), KindAsStr(m.kind))
    ELSE StartsWith(TextOfMech(m), QualifierAsStr(m.qualifier) \o KindAsStr(m.kind))
         /\ QualifierAsStr(m.qualifier) \in { <<"-">>, <<"~">>, <<"?">> }

\* C12: a line with one well-formed directive token that has no leading qualifier character
\* parses to a Record that holds exactly one mechanism of the token's kind, with qualifier
\* Pass; and every mechanism of a parsed Record renders the kind prefix first when it is
\* Pass, and '-', '~' or '?' followed by the kind prefix otherwise.
C12_DefaultQualifierIsPass ==
    pstage # "input" =>
        /\ (/\ IsGrammatical(pline) /\ Len(LineTokens(pline)) = 2
            /\ LineTokens(pline)[2][1] \notin QualifierChars)
              => /\ IsOk(pres)
                 /\ LET k   == TokenKind(LineTokens(pline)[2])
                        got == MechsOfKind(Unwrap(pres.val), k)
                    IN  Len(got) = 1 /\ got[1].qualifier = "Pass" /\ got[1].kind = k
        /\ IsOk(pres) =>
              \A k \in DirectiveKinds :
                  \A i \in 1..Len(MechsOfKind(Unwrap(pres.val), k)) :
                      QualifierRendered(MechsOfKind(Unwrap(pres.val), k)[i])

-----------------------------------------------------------------------------
(* C13 *)

\* the field of the Record that holds kind k, absent or present
FieldOf(r, k) ==
    CASE k = "A" -> r.a [] k = "MX" -> r.mx [] k = "Include" -> r.include
      [] k = "IpV4" -> r.ip4 [] k = "IpV6" -> r.ip6 [] k = "Exists" -> r.exists
      [] k = "Ptr" -> r.ptr [] k = "Redirect" -> r.redirect [] k = "All" -> r.all

\* what a step clear_mechanism(k) does to the Record and to its rendered text
ClearFrame(before, after, k) ==
    /\ IsNone(FieldOf(after, k))
    /\ k = "Redirect" => ~after.is_redirected
    /\ k # "Redirect" => after.is_redirected = before.is_redirected
    /\ after.version = before.version
    /\ \A k2 \in Kinds \ {k} : FieldOf(after, k2) = FieldOf(before, k2)
    /\ after.source = before.source /\ after.from_src = before.from_src
    /\ after.was_parsed = before.was_parsed /\ after.was_validated = before.was_validated
    /\ after.is_valid = before.is_valid /\ after.warnings = before.warnings
    /\ k \notin RenderedKinds(after)

\* C13 as stated: clear_mechanism(k) makes kind k absent, leaves the rest of the Record
\* alone and leaves no token of kind k in the text; append MX then clear MX gives the text
\* the Record had before the append.
C13_ClearThenTextAsBefore ==
    [][ last'.op = "clear_mechanism" =>
          /\ ClearFrame(spf, spf', last'.kind)
          /\ (last'.kind = "MX" /\ last'.pop = "append_mechanism" /\ last'.pkind = "MX")
                => (IsNone(spf'.mx) /\ BuildSpfString(spf') = last'.ppre) ]_vars

\* C13 (amended): clear_mechanism(k) makes kind k absent (and is_redirect() false for
\* Redirect), leaves the version, every other group and the flags alone and leaves no token
\* of kind k in the text; on a Record whose mx() was absent, append MX then clear MX gives
\* mx() absent and the text the Record had before the append.
C13_ClearFrame ==
    [][ last'.op = "clear_mechanism" =>
          /\ ClearFrame(spf, spf', last'.kind)
          /\ (/\ last'.kind = "MX" /\ last'.pop = "append_mechanism" /\ last'.pkind = "MX"
              /\ Len(GroupOf(spf, "MX")) = 1)
                => (IsNone(spf'.mx) /\ BuildSpfString(spf') = last'.ppre) ]_vars

\* an MX was appended to a built Record with an IpV4 member and no MX, then MX was cleared
C13_Witness ==
    /\ pc = "built" /\ last.op = "clear_mechanism" /\ last.kind = "MX"
    /\ last.pop = "append_mechanism" /\ last.pkind = "MX"
    /\ IsNone(spf.mx) /\ IsSome(spf.ip4)
    /\ BuildSpfString(spf) = last.ppre

-----------------------------------------------------------------------------
(* C14 *)

\* the Record was made by Spf::new(), set_v1() and one append_ip_mechanism, in this order
BuiltWithOneIp ==
    /\ pc = "built" /\ nops = 2 /\ last.op = "append_ip_mechanism"
    /\ spf.version = T_v1

\* C14: new_ip gives kind IpV4 to an IPv4 network and kind IpV6 to any other; the Record
\* made by new(), set_v1() and one append_ip_mechanism(new_ip(q, net)) renders as "v=spf1 ",
\* the qualifier text of q (empty for Pass), "ip4:" or "ip6:" by family, and the network.
C14_NewIpRenders ==
    BuiltWithOneIp =>
        LET m   == Unwrap(last.m)
            net == Unwrap(m.rrdata)
        IN  /\ m.kind = (IF IsIpv4(net) THEN "IpV4" ELSE "IpV6")
            /\ BuildSpfString(spf) =
                  T_v1 \o <<" ">>
                  \o (CASE m.qualifier = "Pass" -> <<>> [] m.qualifier = "Fail" -> <<"-">>
                        [] m.qualifier = "SoftFail" -> <<"~">> [] m.qualifier = "Neutral" -> <<"?">>)
                  \o (IF IsIpv4(net) THEN T_ip4 ELSE T_ip6)
                  \o NetToString(net)

\* new(), set_v1() and the append of a Fail-qualified IPv6 network: "v=spf1 -ip6:fe80::/10"
C14_Witness ==
    /\ BuiltWithOneIp
    /\ IsIpv6(Unwrap(Unwrap(last.m).rrdata)) /\ Unwrap(last.m).qualifier = "Fail"
    /\ BuildSpfString(spf) = T_v1 \o <<" ", "-">> \o T_ip6 \o Ip6Net

-----------------------------------------------------------------------------
(* C15 *)

\* the number of A, MX, Include, Redirect and Exists mechanisms of a Record
LookupCost(r) ==
    Len(GroupOf(r, "A")) + Len(GroupOf(r, "MX")) + Len(GroupOf(r, "Include"))
    + Len(GroupOf(r, "Exists")) + Len(r.redirect)

\* the rules of the validator that a Record violates, by the error each gives
ViolatedRules(r) ==
    (IF IsSome(r.redirect) /\ IsSome(r.all) THEN {"RedirectWithAllMechanism"} ELSE {})
    \cup (IF Len(BuildSpfString(r)) > 255 THEN {"SourceLengthExceeded"} ELSE {})
    \cup (IF LookupCost(r) > 10 THEN {"LookupLimitExceeded"} ELSE {})

\* C15: the validator succeeds exactly when the Record violates none of its rules
\* (redirect() with all(), a text of more than 255 characters, more than 10 lookups), and
\* otherwise returns the error of one violated rule.
C15_ValidatorRules ==
    last.op = "try_validate" =>
        /\ last.res = "Ok" <=> ViolatedRules(spf) = {}
        /\ last.res # "Ok" => last.res \in ViolatedRules(spf)

-----------------------------------------------------------------------------
(* C16 *)

\* C16: the validator called on a Record that was made by Spf::new() and filled by the
\* setters and appends, never by a parse, fails with HasNotBeenParsed.
C16_UnparsedIsRejected ==
    (pc = "built" /\ last.op = "try_validate") => last.res = "HasNotBeenParsed"

-----------------------------------------------------------------------------
(* C17 *)

IsMxToken(tok) == \E q \in QualPrefixes, f \in MxForms : tok = q \o f

\* the first MX token of a line that has one
FirstMxToken(s) ==
    LET toks == LineTokens(s)
        i == CHOOSE i \in 1..Len(toks) :
                 IsMxToken(toks[i]) /\ \A j \in 1..(i - 1) : ~IsMxToken(toks[j])
    IN  toks[i]

WithoutPlus(tok) == IF tok # <<>> /\ tok[1] = "+" THEN Tail(tok) ELSE tok

\* C17: when a line of the record grammar carries an MX token of one of the four forms, the
\* parse returns a Record whose mx() is present; its first mechanism has the qualifier of
\* the leading character of the first MX token and renders as that token without a leading
\* '+'; for a bare "mx" its raw value is "mx".
C17_MxForms ==
    (/\ pstage # "input" /\ IsGrammatical(pline)
     /\ \E i \in 1..Len(LineTokens(pline)) : IsMxToken(LineTokens(pline)[i]))
        => /\ IsOk(pres)
           /\ LET tok == FirstMxToken(pline)
                  mx  == Unwrap(pres.val).mx
              IN  /\ IsSome(mx)
                  /\ Unwrap(mx)[1].kind = "MX"
                  /\ Unwrap(mx)[1].qualifier = ReturnAndRemoveQualifier(tok)[1]
                  /\ Unwrap(mx)[1].qualifier =
                        (CASE tok[1] = "-" -> "Fail" [] tok[1] = "~" -> "SoftFail"
                           [] tok[1] = "?" -> "Neutral" [] OTHER -> "Pass")
                  /\ BuildString(Unwrap(mx)[1]) = WithoutPlus(tok)
                  /\ WithoutPlus(tok) = T_mx => Raw(Unwrap(mx)[1]) = T_mx

-----------------------------------------------------------------------------
(* C18 *)

\* a token [qualifier] "exists:" domain that reaches the exists rule of the chain
IsExistsToken(tok) ==
    TokenKind(tok) = "Exists" /\ StartsWith(ReturnAndRemoveQualifier(tok)[2], T_exists)

ExistsTokens(s) == SelectSeq(LineTokens(s), IsExistsToken)

\* C18: the parse appends, for every token [qualifier]"exists:"domain and in token order, an
\* Exists mechanism with the token's qualifier and the text after the rightmost ':' to
\* exists(), which is present whenever the line carries such a token.
C18_ExistsAppended ==
    (pstage # "input" /\ IsOk(pres)) =>
        LET r == Unwrap(pres.val)
        IN  /\ GroupOf(r, "Exists") =
                  [i \in 1..Len(ExistsTokens(pline)) |->
                      new_exists(ReturnAndRemoveQualifier(ExistsTokens(pline)[i])[1],
                                 RSplitFirst(ExistsTokens(pline)[i], ":"))]
            /\ ExistsTokens(pline) # <<>> => IsSome(r.exists)

-----------------------------------------------------------------------------
(* C19 *)

\* the character a qualifier is rendered as, nothing for Pass
QualText(q) ==
    CASE q = "Pass" -> <<>> [] q = "Fail" -> <<"-">> [] q = "SoftFail" -> <<"~">>
      [] q = "Neutral" -> <<"?">>

Slash == <<"/">>

\* C19 as stated: A, MX and Ptr with a payload (taken as a non-empty one) get ':' before
\* it unless it starts with '/'; Include, Exists and Redirect get the payload right after
\* the prefix; no payload gives the qualifier text and the bare prefix.
C19_SeparatorAnyPayload ==
    bstage = "built" =>
        LET head == QualText(bm.qualifier) \o KindAsStr(bm.kind)
        IN  /\ IsNone(bm.rrdata) => btext = head
            /\ (IsSome(bm.rrdata) /\ Unwrap(bm.rrdata) # <<>> /\ bm.kind \in {"A", "MX", "Ptr"}) =>
                  btext = IF StartsWith(Unwrap(bm.rrdata), Slash)
                          THEN head \o Unwrap(bm.rrdata)
                          ELSE head \o <<":">> \o Unwrap(bm.rrdata)
            /\ (IsSome(bm.rrdata) /\ bm.kind \in {"Include", "Exists", "Redirect"}) =>
                  btext = head \o Unwrap(bm.rrdata)

\* C19 (amended): A and MX with a non-empty payload get ':' before it unless it starts with
\* '/'; Ptr with a non-empty payload always gets ':' before it; Include, Exists and
\* Redirect get the payload right after the prefix; no payload, or an empty one, gives the
\* qualifier text and the bare prefix.
C19_Separator ==
    bstage = "built" =>
        LET head == QualText(bm.qualifier) \o KindAsStr(bm.kind)
            p    == IF IsSome(bm.rrdata) THEN Unwrap(bm.rrdata) ELSE <<>>
        IN  /\ p = <<>> => btext = head
            /\ (p # <<>> /\ bm.kind \in {"A", "MX"}) =>
                  btext = IF StartsWith(p, Slash) THEN head \o p ELSE head \o <<":">> \o p
            /\ (p # <<>> /\ bm.kind = "Ptr") => btext = head \o <<":">> \o p
            /\ (p # <<>> /\ bm.kind \in {"Include", "Exists", "Redirect"}) => btext = head \o p

\* a Fail-qualified A mechanism with the payload "/24" was rendered as "-a/24"
C19_Witness ==
    /\ bstage = "built" /\ bm.kind = "A" /\ bm.qualifier = "Fail"
    /\ bm.rrdata = Some(<<"/", "2", "4">>)
    /\ btext = <<"-", "a", "/", "2", "4">>

-----------------------------------------------------------------------------
(* C20 *)

IsVersionToken(t) == Contains(t, T_v1) \/ StartsWith(t, T_v2)

CountTokens(s, Test(_)) == Len(SelectSeq(LineTokens(s), Test))

\* the tokens the claim's order gives to the redirect, include, ip4 and ip6 rules
ForRedirect(t) == ~IsVersionToken(t) /\ Contains(t, T_redirect)

ForInclude(t) == ~IsVersionToken(t) /\ ~Contains(t, T_redirect) /\ Contains(t, T_include)

ForIp4(t) ==
    /\ ~IsVersionToken(t) /\ ~Contains(t, T_redirect) /\ ~Contains(t, T_include)
    /\ ~Contains(t, T_exists) /\ Contains(t, T_ip4)

ForIp6(t) ==
    /\ ~IsVersionToken(t) /\ ~Contains(t, T_redirect) /\ ~Contains(t, T_include)
    /\ ~Contains(t, T_exists) /\ ~Contains(t, T_ip4) /\ Contains(t, T_ip6)

NotEndingInAll(t) == ~IsVersionToken(t) /\ ~EndsWith(t, T_all)

\* the number of mechanisms a Record holds
MechCount(r) ==
    Len(GroupOf(r, "A")) + Len(GroupOf(r, "MX")) + Len(GroupOf(r, "Include"))
    + Len(GroupOf(r, "IpV4")) + Len(GroupOf(r, "IpV6")) + Len(GroupOf(r, "Exists"))
    + Len(r.ptr) + Len(r.redirect) + Len(r.all)

\* C20: in a Record returned by a parse every token went to the first rule that matches it
\* in the order version, redirect=, include:, exists:, ip4:, ip6:, all, A, MX, Ptr, and
\* changed at most one field or group: a token with 'redirect=' and 'include:' sets only
\* the redirect, a token with 'include:' that ends in 'all' only appends an Include and
\* leaves all() alone, and no token that ends in 'all' is in the A, MX or Ptr groups.
C20_FirstRuleWins ==
    (pstage # "input" /\ IsOk(pres)) =>
        LET r == Unwrap(pres.val)
        IN  /\ MechCount(r) <= Len(LineTokens(pline)) - 1
            /\ Len(GroupOf(r, "Include")) = CountTokens(pline, ForInclude)
            /\ IsSome(r.redirect) <=> CountTokens(pline, ForRedirect) > 0
            /\ IsSome(r.redirect) => Unwrap(r.redirect).kind = "Redirect"
            /\ \A i \in 1..Len(GroupOf(r, "Include")) : GroupOf(r, "Include")[i].kind = "Include"
            /\ Len(GroupOf(r, "IpV4")) <= CountTokens(pline, ForIp4)
            /\ Len(GroupOf(r, "IpV6")) <= CountTokens(pline, ForIp6)
            /\ (\A i \in 1..Len(LineTokens(pline)) :
                    EndsWith(LineTokens(pline)[i], T_all)
                        => (Contains(LineTokens(pline)[i], T_include)
                            \/ Contains(LineTokens(pline)[i], T_redirect)))
                  => IsNone(r.all)
            /\ Len(GroupOf(r, "A")) + Len(GroupOf(r, "MX")) + Len(r.ptr)
                  <= CountTokens(pline, NotEndingInAll)
            /\ \A i \in 1..Len(GroupOf(r, "A")) : ~EndsWith(BuildString(GroupOf(r, "A")[i]), T_all)
            /\ \A i \in 1..Len(GroupOf(r, "MX")) : ~EndsWith(BuildString(GroupOf(r, "MX")[i]), T_all)

\* "v=spf1 ~include:d redirect=include:d" was parsed: one Include, and the redirect
C20_Witness ==
    /\ pstage = "parsed" /\ IsOk(pres)
    /\ \E i \in 1..Len(LineTokens(pline)) : LineTokens(pline)[i] = T_redirect \o T_include \o Dom
    /\ Len(GroupOf(Unwrap(pres.val), "Include")) = 1
    /\ Unwrap(pres.val).redirect = Some(new_redirect("Pass", T_include \o Dom))
    /\ IsNone(Unwrap(pres.val).all)

-----------------------------------------------------------------------------
(* C21 *)

\* the places of the tokens of a line that no rule of the classification chain matches
UnknownPlaces(s) ==
    LET toks == SplitWhitespace(s) IN { i \in 2..Len(toks) : TokenKind(toks[i]) = "Unknown" }

\* the line s with its i-th token removed
WithoutToken(s, i) ==
    LET toks == SplitWhitespace(s)
    IN  Join(toks[1], SubSeq(toks, 2, i - 1) \o SubSeq(toks, i + 1, Len(toks)))

\* the version, the six groups, Ptr, Redirect and All of two Records are the same
SameDirectives(r1, r2) ==
    /\ r1.version = r2.version
    /\ \A k \in Kinds : FieldOf(r1, k) = FieldOf(r2, k)
    /\ r1.is_redirected = r2.is_redirected

\* C21: a token that no classification rule matches does not make the parse fail and leaves
\* no trace: the parse of the line ends as the parse of the line without that token ends,
\* and when it returns a Record, its version, groups, Ptr, Redirect and All are the same.
C21_UnknownTokenDropped ==
    (pstage # "input" /\ PreCheck(pline) = "Ok") =>
        \A i \in UnknownPlaces(pline) :
            LET q == SpfFromStr(WithoutToken(pline, i))
            IN  /\ pres.tag = q.tag /\ pres.err = q.err
                /\ IsOk(pres) => SameDirectives(Unwrap(pres.val), Unwrap(q.val))

\* "v=spf1 a foo mx" was parsed: a() and mx() each hold one mechanism
C21_Witness ==
    /\ pstage = "parsed" /\ pline = Join(T_v1, <<T_a, <<"f", "o", "o">>, T_mx>>)
    /\ IsOk(pres)
    /\ Len(GroupOf(Unwrap(pres.val), "A")) = 1 /\ Len(GroupOf(Unwrap(pres.val), "MX")) = 1

-----------------------------------------------------------------------------
(* C22 *)

\* the places of the all tokens of a line: an optional qualifier character, then "all"
AllPlaces(s) ==
    LET toks == SplitWhitespace(s)
    IN  { i \in 2..Len(toks) : \E q \in QualPrefixes : toks[i] = q \o T_all }

\* the last place of a non-empty set of places
LastPlace(ps) == CHOOSE i \in ps : \A j \in ps : j <= i

\* C22 (parse part): when a line of the record grammar has several all tokens, the parse
\* returns a Record whose all() is the All mechanism with the qualifier of the last of them.
C22_LastAllWins ==
    (pstage # "input" /\ IsGrammatical(pline) /\ Cardinality(AllPlaces(pline)) >= 2) =>
        LET tok == SplitWhitespace(pline)[LastPlace(AllPlaces(pline))]
        IN  /\ IsOk(pres)
            /\ Unwrap(pres.val).all = Some(new_all(ReturnAndRemoveQualifier(tok)[1]))

-----------------------------------------------------------------------------
(* C23 *)

\* C23: in every state of a Record, after a successful parse and after any appends and
\* clears, each of the groups a(), mx(), includes(), ip4(), ip6(), exists() is absent or
\* holds at least one mechanism.
C23_NoEmptyGroup ==
    Alive => \A k \in GroupKinds : IsSome(FieldOf(spf, k)) => Len(Unwrap(FieldOf(spf, k))) >= 1

\* "v=spf1 a mx" was parsed and the A group cleared: a() is absent, mx() holds one mechanism,
\* and the groups no token named are absent
C23_Witness ==
    /\ pc = "parsed" /\ last.op = "clear_mechanism" /\ last.kind = "A"
    /\ spf.source = Join(T_v1, <<T_a, T_mx>>)
    /\ IsNone(spf.a) /\ IsSome(spf.mx) /\ Len(Unwrap(spf.mx)) = 1
    /\ IsNone(spf.include) /\ IsNone(spf.ip4) /\ IsNone(spf.ip6) /\ IsNone(spf.exists)

-----------------------------------------------------------------------------
(* C24 *)

\* C24: in every state of a Record is_redirect() is true exactly when redirect() is present;
\* a Record started from Spf::new() never holds a redirect and an All together; and an All
\* appended while no redirect is present, as after clear_mechanism(Redirect), is stored.
C24_RedirectFlag ==
    [][ Alive' =>
          /\ is_redirect(spf') <=> IsSome(spf'.redirect)
          /\ pc' = "built" => ~(IsSome(spf'.redirect) /\ IsSome(spf'.all))
          /\ (last'.op = "append_mechanism" /\ last'.kind = "All" /\ IsNone(spf.redirect))
                => spf'.all = last'.m ]_vars

\* on a built Record a redirect was cleared and then an All appended: the All is stored and
\* is_redirect() is false
C24_Witness ==
    /\ pc = "built" /\ last.op = "append_mechanism" /\ last.kind = "All"
    /\ last.pop = "clear_mechanism" /\ last.pkind = "Redirect"
    /\ spf.all = last.m /\ IsNone(spf.redirect) /\ ~is_redirect(spf)

-----------------------------------------------------------------------------
(* C25 *)

\* C25: is_valid() is true exactly for the Records a successful parse returned, whatever
\* append, clear or validator call follows, and false for every Record started from
\* Spf::new(), also after a successful validator call; source() is the parsed line,
\* verbatim, on a parsed Record and empty on a constructed one.
C25_ValidAndSource ==
    [][ Alive' =>
          /\ is_valid(spf') <=> pc' = "parsed"
          /\ pc' = "built" => spf'.source = <<>>
          /\ last'.op = "from_str" => spf'.source = last'.text
          /\ last'.op \notin {"from_str", "new"} => spf'.source = spf.source ]_vars

\* the validator failed with LookupLimitExceeded on a parsed Record: is_valid() is still true
C25_Witness ==
    /\ pc = "parsed" /\ last.op = "try_validate" /\ last.res = "LookupLimitExceeded"
    /\ is_valid(spf) /\ spf.source = Join(T_v1, [i \in 1..LookupLimit |-> T_a])

-----------------------------------------------------------------------------
(* C26 *)

MechanismErrors == {"NotValidMechanismFormat", "NotIP4Network", "NotIP6Network", "NotValidIPNetwork"}

\* the text holds "ip4:" or "ip6:" but not at its start, one leading qualifier character aside
IpMarkerNotAtStart(s) ==
    /\ Contains(s, T_ip4) \/ Contains(s, T_ip6)
    /\ \A q \in QualPrefixes : ~StartsWith(s, q \o T_ip4) /\ ~StartsWith(s, q \o T_ip6)

\* C26: both text constructors return a mechanism or one of the four MechanismError values
\* for every text and never abort; the IP constructor returns an error for a text that
\* holds "ip4:" or "ip6:" elsewhere than at its start, and each constructor returns
\* NotValidMechanismFormat with the text for a text without any marker it handles.
C26_ConstructorsTotal ==
    mstage \in {"ip", "text"} =>
        /\ mres.tag \in {"Ok", "Err"}
        /\ mres.tag = "Err" => mres.err \in MechanismErrors
        /\ (mstage = "ip" /\ IpMarkerNotAtStart(ms)) => mres.tag = "Err"
        /\ (mstage = "ip" /\ ~Contains(ms, T_ip4) /\ ~Contains(ms, T_ip6))
              => (mres.tag = "Err" /\ mres.err = "NotValidMechanismFormat" /\ mres.text = ms)
        /\ (mstage = "text" /\ ~Contains(ms, T_redirect) /\ ~Contains(ms, T_include))
              => (mres.tag = "Err" /\ mres.err = "NotValidMechanismFormat" /\ mres.text = ms)

====
